---- MODULE Spec2Model ----
(***************************************************************************)
(* Range enumeration of biblelib.unit.unitrange: ChapterRange and          *)
(* VerseRange, their construction checks (__post_init__) and enumerate().  *)
(*                                                                         *)
(* Python values are records tagged with their class (field cls), so that  *)
(* == between values of different classes is False, as in Python.  The     *)
(* text of a str or of an identifier is a sequence of decimal digits.      *)
(***************************************************************************)
EXTENDS Integers, Sequences, FiniteSets, TLC

VARIABLES cr, vr, call, ret, assigned, enums

vars == <<cr, vr, call, ret, assigned, enums>>

(***************************************************************************)
(* Bounds of the modelled canon.                                           *)
(***************************************************************************)
MaxChapter == 3
MaxVerse == 2

\* Repetitions of enumerate() followed on one range after its first call,
\* before the range is rebuilt or assigned to.
MaxRepeats == 1

\* USFM numbers of the modelled books: 41 (Mark), cut to MaxChapter chapters,
\* and 65 (Jude), a book of one chapter.
Books == {<<4, 1>>, <<6, 5>>}

LastChapterOf(b) == IF b = <<6, 5>> THEN 1 ELSE MaxChapter

\* Width of the chapter and verse components of an identifier.
PadWidth == 3

(***************************************************************************)
(* Python values.                                                          *)
(***************************************************************************)
None == [cls |-> "NoneType"]

Unset == [cls |-> "unset"]

Str(digits) == [cls |-> "str", v |-> digits]

\* A Python list of the elements of a sequence.
List(elems) == [cls |-> "list", v |-> elems]

IsNone(x) == x.cls = "NoneType"

\* Python ==: values of different classes are never equal.
PyEq(a, b) == a = b

RECURSIVE DigitsOf(_)
DigitsOf(n) == IF n < 10 THEN <<n>> ELSE DigitsOf(n \div 10) \o <<n % 10>>

\* str(n).zfill(count)
pad(n, count) ==
    LET d == DigitsOf(n)
    IN  Str([i \in 1..(IF Len(d) >= count THEN 0 ELSE count - Len(d)) |-> 0] \o d)

RECURSIVE ParseDigits(_)
ParseDigits(d) ==
    IF Len(d) = 0 THEN 0
    ELSE 10 * ParseDigits(SubSeq(d, 1, Len(d) - 1)) + d[Len(d)]

\* int(s) of a str of decimal digits
int(s) == ParseDigits(s.v)

\* s + t on str
StrCat(s, t) == Str(s.v \o t.v)

\* s <= t on str: lexicographic order
StrLe(s, t) ==
    \/ s.v = t.v
    \/ \E i \in 1..Len(t.v) :
          /\ i <= Len(s.v) + 1
          /\ SubSeq(s.v, 1, i - 1) = SubSeq(t.v, 1, i - 1)
          /\ (i = Len(s.v) + 1 \/ s.v[i] < t.v[i])

(***************************************************************************)
(* Canonical identifiers BID, BCID, BCVID (biblelib.word).                 *)
(***************************************************************************)
BID(s) == [cls |-> "BID", v |-> s.v]

BCID(s) == [cls |-> "BCID", v |-> s.v]

BCVID(s) == [cls |-> "BCVID", v |-> s.v]

ID(x) == Str(x.v)

book_ID(x) == Str(SubSeq(x.v, 1, 2))

chapter_ID(x) == Str(SubSeq(x.v, 3, 5))

verse_ID(x) == Str(SubSeq(x.v, 6, 8))

to_bid(x) == BID(book_ID(x))

\* simplify(inst, tocls): a new identifier of the coarser class tocls.
simplify(inst, tocls) ==
    IF tocls = "BID" THEN BID(book_ID(inst))
    ELSE IF tocls = "BCID" THEN BCID(Str(SubSeq(inst.v, 1, 5)))
    ELSE BCVID(Str(SubSeq(inst.v, 1, 8)))

\* a <= b on identifiers of the same class: the order of their ID text
IdLe(a, b) == a.cls = b.cls /\ StrLe(ID(a), ID(b))

(***************************************************************************)
(* Chapter and Verse units (biblelib.unit).                                *)
(***************************************************************************)
\* Number of verses of a chapter: a table of the modelled canon with values
\* 1..MaxVerse that differ from chapter to chapter.
LastVerseOf(bcid) == ((int(book_ID(bcid)) + int(chapter_ID(bcid))) % MaxVerse) + 1

Verse(inst) == [cls |-> "Verse", identifier |-> inst]

Chapter(inst) == [cls |-> "Chapter", identifier |-> inst, lastverse |-> LastVerseOf(inst)]

\* Chapter.enumerate(startindex, endindex): the verses startindex..endindex
Chapter_enumerate(chap, startindex, endindex) ==
    [i \in 1..(IF endindex >= startindex THEN endindex - startindex + 1 ELSE 0) |->
        Verse(BCVID(StrCat(ID(chap.identifier), pad(startindex + i - 1, PadWidth))))]

\* The chapter and verse identifiers of the modelled canon.
ChapterIDs ==
    UNION {{BCID(StrCat(Str(b), pad(c, PadWidth))) : c \in 1..LastChapterOf(b)} : b \in Books}

VerseIDs ==
    UNION {{BCVID(StrCat(ID(c), pad(n, PadWidth))) : n \in 1..LastVerseOf(c)} : c \in ChapterIDs}

(***************************************************************************)
(* ChapterRange                                                            *)
(***************************************************************************)
Raise(msg) == [cls |-> "AssertionError", msg |-> msg]

\* Variant of __post_init__ without the same-book assertion.
ChapterRange_post_init_nobook(self) ==
    IF ~IdLe(self.startid, self.endid) THEN Raise("order") ELSE None

\* Variant of __post_init__ without the ordering assertion.
ChapterRange_post_init_noorder(self) ==
    IF ~PyEq(simplify(self.startid, "BID"), simplify(self.endid, "BID"))
    THEN Raise("same book")
    ELSE None

\* ChapterRange.__post_init__: None, or the AssertionError raised
ChapterRange_post_init(self) ==
    IF ~PyEq(simplify(self.startid, "BID"), simplify(self.endid, "BID"))
    THEN Raise("same book")
    ELSE IF ~IdLe(self.startid, self.endid)
    THEN Raise("order")
    ELSE None

\* Variant of enumerate with range(startid_chap, endid_chap): the end excluded.
ChapterRange_enumerate_exclusive(self) ==
    IF PyEq(self.startid, self.endid)
    THEN List(<<Chapter(self.startid)>>)
    ELSE LET bookid == book_ID(self.startid)
             startid_chap == int(chapter_ID(self.startid))
             endid_chap == int(chapter_ID(self.endid))
         IN  List([k \in 1..(IF endid_chap > startid_chap THEN endid_chap - startid_chap ELSE 0) |->
                Chapter(BCID(StrCat(bookid, pad(startid_chap + k - 1, PadWidth))))])

\* ChapterRange.enumerate
ChapterRange_enumerate(self) ==
    IF PyEq(self.startid, self.endid)
    THEN List(<<Chapter(self.startid)>>)
    ELSE LET bookid == book_ID(self.startid)
             startid_chap == int(chapter_ID(self.startid))
             endid_chap == int(chapter_ID(self.endid))
         IN  List([k \in 1..(IF endid_chap >= startid_chap THEN endid_chap - startid_chap + 1 ELSE 0) |->
                Chapter(BCID(StrCat(bookid, pad(startid_chap + k - 1, PadWidth))))])

\* ChapterRange(startid, endid): the dataclass __init__ followed by __post_init__
NewChapterRange(startid, endid) ==
    LET self == [cls |-> "ChapterRange", startid |-> startid, endid |-> endid]
        err == ChapterRange_post_init(self)
    IN  IF IsNone(err) THEN self ELSE err

(***************************************************************************)
(* VerseRange                                                              *)
(***************************************************************************)
\* VerseRange.__post_init__: self with book_ID assigned, and None or the
\* AssertionError raised
VerseRange_post_init(self0) ==
    LET book == to_bid(self0.startid)
        self == [self0 EXCEPT !.book_ID = ID(book)]
    IN  IF ~PyEq(self.book_ID, simplify(self.endid, "BID"))
        THEN [self |-> self, err |-> Raise("same book")]
        ELSE IF ~IdLe(self.startid, self.endid)
        THEN [self |-> self, err |-> Raise("order")]
        ELSE [self |-> self, err |-> None]

\* get_verses, local to VerseRange.enumerate
get_verses(bcid, startindex, endindex) ==
    Chapter_enumerate(Chapter(bcid), startindex, endindex)

RECURSIVE Flatten(_)
Flatten(lists) ==
    IF Len(lists) = 0 THEN <<>> ELSE lists[1] \o Flatten(Tail(lists))

\* VerseRange.enumerate: the list returned, or the AssertionError that the
\* ChapterRange built for a span of chapters raises
VerseRange_enumerate(self) ==
    IF PyEq(self.startid, self.endid)
    THEN List(<<Verse(self.startid)>>)
    ELSE LET startid_chap_index == int(chapter_ID(self.startid))
             startid_verse_index == int(verse_ID(self.startid))
             endid_chap_index == int(chapter_ID(self.endid))
             endid_verse_index == int(verse_ID(self.endid))
         IN  IF startid_chap_index = endid_chap_index
             THEN List(Chapter_enumerate(Chapter(simplify(self.startid, "BCID")),
                                         startid_verse_index, endid_verse_index))
             ELSE LET chaprange == NewChapterRange(simplify(self.startid, "BCID"),
                                                   simplify(self.endid, "BCID"))
                      chapenum == ChapterRange_enumerate(chaprange).v
                      firstbcid == chapenum[1].identifier
                      firstchap == Chapter(firstbcid)
                      firstverses == get_verses(firstbcid, startid_verse_index, firstchap.lastverse)
                      midbcids == SubSeq(chapenum, 2, Len(chapenum) - 1)
                      midverses == Flatten([k \in 1..Len(midbcids) |->
                                      Chapter_enumerate(midbcids[k], 1, midbcids[k].lastverse)])
                      lastbcid == chapenum[Len(chapenum)].identifier
                      lastverses == get_verses(lastbcid, 1, endid_verse_index)
                  IN  IF chaprange.cls = "AssertionError"
                      THEN chaprange
                      ELSE List(firstverses \o midverses \o lastverses)

\* VerseRange(startid, endid): the dataclass __init__ (ID and book_ID are
\* init=False fields without default) followed by __post_init__
NewVerseRange(startid, endid) ==
    LET self0 == [cls |-> "VerseRange", startid |-> startid, endid |-> endid,
                  ID |-> Unset, book_ID |-> Unset]
        r == VerseRange_post_init(self0)
    IN  IF IsNone(r.err) THEN r.self ELSE r.err

(***************************************************************************)
(* A caller holding one ChapterRange (cr) and one VerseRange (vr).         *)
(*   call      the last call made                                          *)
(*   ret       what it returned or raised                                  *)
(*   assigned  the ranges an attribute was assigned to since construction  *)
(*   enums     per range, what its first enumerate() returned since it was *)
(*             constructed or last assigned to, and the number of calls    *)
(***************************************************************************)
Targets == {"cr", "vr"}

NoCall == [op |-> "none", target |-> "none", startid |-> None, endid |-> None,
           attr |-> "none", value |-> None]

\* No enumerate() call yet on a range.
NoEnums == [first |-> None, n |-> 0]

Init ==
    /\ cr = None
    /\ vr = None
    /\ call = NoCall
    /\ ret = None
    /\ assigned = {}
    /\ enums = [t \in Targets |-> NoEnums]

\* cr = ChapterRange(startid, endid)
ConstructChapterRange(startid, endid) ==
    LET r == NewChapterRange(startid, endid)
    IN  /\ call' = [NoCall EXCEPT !.op = "construct", !.target = "cr",
                                  !.startid = startid, !.endid = endid]
        /\ ret' = r
        /\ IF r.cls = "ChapterRange"
           THEN /\ cr' = r
                /\ assigned' = assigned \ {"cr"}
                /\ enums' = [enums EXCEPT !["cr"] = NoEnums]
           ELSE UNCHANGED <<cr, assigned, enums>>
        /\ UNCHANGED vr

\* vr = VerseRange(startid, endid)
ConstructVerseRange(startid, endid) ==
    LET r == NewVerseRange(startid, endid)
    IN  /\ call' = [NoCall EXCEPT !.op = "construct", !.target = "vr",
                                  !.startid = startid, !.endid = endid]
        /\ ret' = r
        /\ IF r.cls = "VerseRange"
           THEN /\ vr' = r
                /\ assigned' = assigned \ {"vr"}
                /\ enums' = [enums EXCEPT !["vr"] = NoEnums]
           ELSE UNCHANGED <<vr, assigned, enums>>
        /\ UNCHANGED cr

\* Variant of enumerate() that consumes the range: it leaves startid at endid.
Enumerate_consuming(t) ==
    LET self == IF t = "cr" THEN cr ELSE vr
        val == IF t = "cr" THEN ChapterRange_enumerate(self) ELSE VerseRange_enumerate(self)
        used == [self EXCEPT !.startid = self.endid]
    IN  /\ ~IsNone(self)
        /\ enums[t].n <= MaxRepeats
        /\ call' = [NoCall EXCEPT !.op = "enumerate", !.target = t]
        /\ ret' = val
        /\ enums' = [enums EXCEPT ![t] = [first |-> IF @.n = 0 THEN val ELSE @.first,
                                         n |-> @.n + 1]]
        /\ cr' = IF t = "cr" THEN used ELSE cr
        /\ vr' = IF t = "vr" THEN used ELSE vr
        /\ UNCHANGED assigned

\* cr.enumerate() or vr.enumerate()
Enumerate(t) ==
    LET self == IF t = "cr" THEN cr ELSE vr
        val == IF t = "cr" THEN ChapterRange_enumerate(self) ELSE VerseRange_enumerate(self)
    IN  /\ ~IsNone(self)
        /\ enums[t].n <= MaxRepeats
        /\ call' = [NoCall EXCEPT !.op = "enumerate", !.target = t]
        /\ ret' = val
        /\ enums' = [enums EXCEPT ![t] = [first |-> IF @.n = 0 THEN val ELSE @.first,
                                         n |-> @.n + 1]]
        /\ UNCHANGED <<cr, vr, assigned>>

\* cr.startid = value, cr.endid = value (and the same on vr): the dataclasses
\* are not frozen, and assignment does not run __post_init__
SetAttr(t, attr, value) ==
    LET self == IF t = "cr" THEN cr ELSE vr
        new == IF attr = "startid" THEN [self EXCEPT !.startid = value]
                                   ELSE [self EXCEPT !.endid = value]
    IN  /\ ~IsNone(self)
        /\ call' = [NoCall EXCEPT !.op = "setattr", !.target = t, !.attr = attr, !.value = value]
        /\ ret' = None
        /\ cr' = IF t = "cr" THEN new ELSE cr
        /\ vr' = IF t = "vr" THEN new ELSE vr
        /\ assigned' = assigned \cup {t}
        /\ enums' = [enums EXCEPT ![t] = NoEnums]

Next ==
    \/ \E s \in ChapterIDs, e \in ChapterIDs : ConstructChapterRange(s, e)
    \/ \E s \in VerseIDs, e \in VerseIDs : ConstructVerseRange(s, e)
    \/ \E t \in Targets : Enumerate(t)
    \/ \E t \in Targets, attr \in {"startid", "endid"} :
          \E value \in (IF t = "cr" THEN ChapterIDs ELSE VerseIDs) : SetAttr(t, attr, value)

Spec == Init /\ [][Next]_vars

(***************************************************************************)
(* Vocabulary of the properties, stated on the numbers an identifier       *)
(* encodes rather than with the operations of the code.                    *)
(***************************************************************************)
BookNum(x) == 10 * x.v[1] + x.v[2]

ChapNum(x) == 100 * x.v[3] + 10 * x.v[4] + x.v[5]

VerseNum(x) == 100 * x.v[6] + 10 * x.v[7] + x.v[8]

\* An identifier as one number: canonical order is the order of these.
IdNum(x) == IF Len(x.v) = 8 THEN 1000 * (1000 * BookNum(x) + ChapNum(x)) + VerseNum(x)
                            ELSE 1000 * BookNum(x) + ChapNum(x)

SameBook(a, b) == BookNum(a) = BookNum(b)

ValidPair(a, b) == SameBook(a, b) /\ IdNum(a) <= IdNum(b)

IsRange(x) == x.cls \in {"ChapterRange", "VerseRange"}

RangeOf(t) == IF t = "cr" THEN cr ELSE vr

EnumerateOf(r) ==
    IF r.cls = "ChapterRange" THEN ChapterRange_enumerate(r) ELSE VerseRange_enumerate(r)

\* The chapter identifier of book b, chapter number c.
ChapterId(b, c) == [cls |-> "BCID", v |-> b \o <<c \div 100, (c \div 10) % 10, c % 10>>]

\* The verses of the book from a to b inclusive, counted chapter by chapter.
TrueVerseCount(a, b) ==
    LET book == SubSeq(a.v, 1, 2)
        last(c) == LastVerseOf(ChapterId(book, c))
        RECURSIVE Sum(_)
        Sum(c) == IF c > ChapNum(b) THEN 0 ELSE last(c) + Sum(c + 1)
    IN  Sum(ChapNum(a)) - (VerseNum(a) - 1) - (last(ChapNum(b)) - VerseNum(b))

\* The verses of the canon from a to b inclusive, in canonical order.
VersesBetween(a, b) ==
    LET S == {x \in VerseIDs : IdNum(a) <= IdNum(x) /\ IdNum(x) <= IdNum(b)}
    IN  [i \in 1..Cardinality(S) |->
            CHOOSE x \in S : Cardinality({y \in S : IdNum(y) < IdNum(x)}) = i - 1]

Identifiers(units) == [i \in 1..Len(units) |-> units[i].identifier]

C2_VerseEnumeration ==
    (call.op = "construct" /\ call.target = "vr" /\ ValidPair(call.startid, call.endid)) =>
        /\ ret.cls = "VerseRange"
        /\ LET e == VerseRange_enumerate(ret).v
           IN  /\ Len(e) = TrueVerseCount(call.startid, call.endid)
               /\ e[1].identifier = call.startid
               /\ e[Len(e)].identifier = call.endid

(***************************************************************************)
(* C3: constructing either range with startid = endid succeeds, and        *)
(* enumerate() of the range is the one-element sequence of startid.        *)
(***************************************************************************)
C3_VacuousRange ==
    (call.op = "construct" /\ call.startid = call.endid) =>
        /\ IsRange(ret)
        /\ Identifiers(EnumerateOf(ret).v) = <<call.startid>>

(***************************************************************************)
(* C4: constructing either range from identifiers of different books       *)
(* raises the same-book assertion and returns no range.                    *)
(***************************************************************************)
C4_CrossBookRejected ==
    (call.op = "construct" /\ ~SameBook(call.startid, call.endid)) =>
        /\ ret = Raise("same book")
        /\ ~IsRange(ret)

C4_Witness ==
    /\ call.op = "construct"
    /\ call.target = "cr"
    /\ ~SameBook(call.startid, call.endid)
    /\ IdNum(call.startid) < IdNum(call.endid)
    /\ ret.cls = "AssertionError"

(***************************************************************************)
(* C5: constructing either range from identifiers of one book with startid *)
(* after endid raises the ordering assertion and returns no range.         *)
(***************************************************************************)
C5_OutOfOrderRejected ==
    (call.op = "construct" /\ SameBook(call.startid, call.endid)
                           /\ IdNum(call.startid) > IdNum(call.endid)) =>
        /\ ret = Raise("order")
        /\ ~IsRange(ret)

(***************************************************************************)
(* C6: VerseRange(startid, endid) on a valid pair yields a range on which  *)
(* both ID and book_ID are set, book_ID being the book text of startid.    *)
(***************************************************************************)
C6_DerivedAttributes ==
    (call.op = "construct" /\ call.target = "vr" /\ ValidPair(call.startid, call.endid)) =>
        /\ ret.cls = "VerseRange"
        /\ ret.ID # Unset
        /\ ret.book_ID = Str(SubSeq(call.startid.v, 1, 2))

C9_MultiChapterSpan ==
    (call.op = "construct" /\ call.target = "vr" /\ ValidPair(call.startid, call.endid)
                           /\ ChapNum(call.startid) # ChapNum(call.endid)) =>
        /\ ret.cls = "VerseRange"
        /\ Identifiers(VerseRange_enumerate(ret).v) = VersesBetween(call.startid, call.endid)

(***************************************************************************)
(* C10: constructing either range from identifiers of one book with        *)
(* startid <= endid returns a range and raises nothing.                    *)
(***************************************************************************)
C10_AcceptsValid ==
    (call.op = "construct" /\ ValidPair(call.startid, call.endid)) => IsRange(ret)

====
